---- MODULE Spec2Model ----
(***************************************************************************)
(* Model of the FTP upload layer of vercel-cron                            *)
(* (src/services/ftp_client.py): FTPClient.__init__/_validate_config, the  *)
(* ftp_connection context manager, upload_csv_string, test_connection,     *)
(* create_directory_if_not_exists and upload_csv_to_ftp.                   *)
(*                                                                         *)
(* Python strings whose characters the code inspects (server responses,    *)
(* exception texts, environment values) are sequences of one-character     *)
(* strings; a Python dict is a function whose DOMAIN is its set of keys.   *)
(* One call runs at a time, on one client object; every ftplib call is one *)
(* step whose outcome (a return value or a raised exception) is chosen by  *)
(* the environment.  The cron_csv_export endpoint (src/api/main.py,        *)
(* src/api/cron-export.py) is a caller of upload_csv_to_ftp.               *)
(*                                                                         *)
(* ExportSpec is a second specification: invocations of the endpoint that  *)
(* run at the same time, each naming its file from the clock with          *)
(* generate_filename (src/services/csv_generator.py).                      *)
(***************************************************************************)
EXTENDS Integers, Sequences, FiniteSets, TLC

VARIABLES
    pc,          \* position of the running call ("idle" when none runs)
    op,          \* the public operation that is running
    args,        \* its arguments
    config,      \* self.config of the client the call works on
    constructed, \* FTPClient.__init__ returned normally for that client
    ftp,         \* the local ftp of ftp_connection: "None", "FTP", "FTP_TLS"
    locals,      \* locals of the with-body (csv_bytes, current_dir, file_list)
    exc,         \* the exception in flight inside the call (NoExc when none)
    ret,         \* the value of the return statement already executed
    result,      \* what the caller received as return value
    raised,      \* the exception the caller received (NoExc when none)
    calls,       \* the calls this run has made, in order, with their outcomes
    endpoint,    \* the cron_csv_export request being served: its locals, its response
    now,         \* the wall clock, in seconds since 2024-01-01 00:00:00
    ticks,       \* how often the clock has advanced
    exports,     \* concurrent export invocations: position and locals of each
    stored,      \* the STOR commands the server has received, in order
    files,       \* the files of remote_dir on the server, and whose content each holds
    overlaps     \* the pairs of invocations that were running at the same time

clientVars == <<pc, op, args, config, constructed, ftp, locals, exc, ret, result, raised,
                calls, endpoint>>

exportVars == <<now, ticks, exports, stored, files, overlaps>>

vars == <<pc, op, args, config, constructed, ftp, locals, exc, ret, result, raised, calls,
          endpoint, now, ticks, exports, stored, files, overlaps>>

-----------------------------------------------------------------------------
(* Bounds *)

MaxContentLen == 1

\* how often the clock advances while the concurrent exports run
MaxTicks == 3

-----------------------------------------------------------------------------
(* Python values *)

PyNone == <<"<None>">>
EmptyStr == <<>>
EmptyDict == <<>>
NoValue == [none |-> TRUE]
NoExc == [kind |-> "none", msg |-> <<>>]

\* bool(v) of a str-or-None value
Truthy(v) == v # PyNone /\ v # EmptyStr

\* d.get(k)
DictGet(d, k) == IF k \in DOMAIN d THEN d[k] ELSE PyNone

\* str.startswith
StartsWith(s, prefix) ==
    /\ Len(s) >= Len(prefix)
    /\ SubSeq(s, 1, Len(prefix)) = prefix

\* str.lower on the letters that occur in the sampled values
LowerChar(c) ==
    CASE c = "T" -> "t"
      [] c = "R" -> "r"
      [] c = "U" -> "u"
      [] c = "E" -> "e"
      [] c = "Y" -> "y"
      [] c = "S" -> "s"
      [] OTHER -> c

Lower(s) == [i \in 1..Len(s) |-> LowerChar(s[i])]

DigitValue(c) ==
    CASE c = "0" -> 0 [] c = "1" -> 1 [] c = "2" -> 2 [] c = "3" -> 3
      [] c = "4" -> 4 [] c = "5" -> 5 [] c = "6" -> 6 [] c = "7" -> 7
      [] c = "8" -> 8 [] c = "9" -> 9 [] OTHER -> -1

IsDecimal(s) == Len(s) > 0 /\ \A i \in 1..Len(s) : DigitValue(s[i]) >= 0

RECURSIVE ParseInt(_)
\* int(s) for a string of decimal digits
ParseInt(s) ==
    IF s = <<>> THEN 0
    ELSE 10 * ParseInt(SubSeq(s, 1, Len(s) - 1)) + DigitValue(s[Len(s)])

-----------------------------------------------------------------------------
(* UTF-8 *)

IsSurrogate(cp) == cp >= 55296 /\ cp <= 57343

\* the bytes str.encode('utf-8') produces for one code point
Utf8EncodeChar(cp) ==
    IF cp < 128 THEN <<cp>>
    ELSE IF cp < 2048 THEN <<192 + (cp \div 64), 128 + (cp % 64)>>
    ELSE IF cp < 65536
         THEN <<224 + (cp \div 4096), 128 + ((cp \div 64) % 64), 128 + (cp % 64)>>
    ELSE <<240 + (cp \div 262144), 128 + ((cp \div 4096) % 64),
           128 + ((cp \div 64) % 64), 128 + (cp % 64)>>

\* faulty variant of Utf8Encode: one byte per character (len(csv_content))
Utf8Encode_OneBytePerChar(s) == [i \in 1..Len(s) |-> s[i] % 256]

RECURSIVE Utf8Encode(_)
Utf8Encode(s) ==
    IF s = <<>> THEN <<>>
    ELSE Utf8EncodeChar(Head(s)) \o Utf8Encode(Tail(s))

\* str.encode('utf-8') raises UnicodeEncodeError on a lone surrogate
EncodeRaises(s) == \E i \in 1..Len(s) : IsSurrogate(s[i])

-----------------------------------------------------------------------------
(* Exceptions: [kind, msg]; str(e) is msg *)

ErrPerm == [kind |-> "error_perm", msg |-> <<"550 Requested action not taken">>]
ErrEOF == [kind |-> "EOFError", msg |-> <<>>]
ErrValue == [kind |-> "ValueError", msg |-> <<"illegal newline character">>]
ErrEncode == [kind |-> "UnicodeEncodeError", msg |-> <<"surrogates not allowed">>]
ErrAttr == [kind |-> "AttributeError", msg |-> <<"'NoneType' object has no attribute 'sendall'">>]
ErrPort == [kind |-> "ValueError", msg |-> <<"invalid literal for int() with base 10">>]

KeyError(k) == [kind |-> "KeyError", msg |-> <<"'", k, "'">>]

\* what an ftplib call can raise
StepErrors == {ErrPerm, ErrEOF, ErrValue}

\* what ftp.quit() can raise
QuitErrors == {ErrEOF, ErrAttr}

\* isinstance(e, ftplib.all_errors): (Error, OSError, EOFError)
IsAllErrors(e) ==
    e.kind \in {"error_reply", "error_temp", "error_perm", "error_proto",
                "OSError", "EOFError"}

\* faulty variant of IsErrorPerm: the inner except clause catches every ftplib error
IsErrorPerm_AllErrors(e) == IsAllErrors(e)

\* isinstance(e, ftplib.error_perm)
IsErrorPerm(e) == e.kind = "error_perm"

-----------------------------------------------------------------------------
(* Inputs *)

Host == <<"ftp.example.com">>
User == <<"user">>
Pass == <<"secret">>

RequiredFields == <<"hostname", "username", "password">>

ConfigKeys == {"hostname", "username", "password", "port", "remote_dir", "use_tls"}

BaseDict(tls, dir) ==
    [hostname |-> Host, username |-> User, password |-> Pass,
     port |-> 21, remote_dir |-> dir, use_tls |-> tls]

Restrict(d, keys) == [k \in keys |-> d[k]]

RemoteDirs == {"/", "/data"}

\* config dicts whose required fields are all set; optional keys may be absent
ValidDicts ==
    {Restrict(BaseDict(tls, dir), ConfigKeys \ drop) :
        tls \in BOOLEAN, dir \in RemoteDirs,
        drop \in {{}, {"use_tls"}, {"remote_dir"}}}

\* config dicts with one required field absent, empty or None
InvalidDicts ==
    {Restrict(BaseDict(FALSE, "/"), ConfigKeys \ {f}) :
        f \in {"hostname", "username", "password"}}
    \cup {[BaseDict(FALSE, "/") EXCEPT ![f] = v] :
        f \in {"hostname", "username", "password"}, v \in {EmptyStr, PyNone}}

ArgNone == [kind |-> "None"]
DictArg(d) == [kind |-> "dict", dict |-> d]

ConfigArgs == {ArgNone, DictArg(EmptyDict)} \cup {DictArg(d) : d \in ValidDicts \cup InvalidDicts}

EnvBase == [FTP_HOSTNAME |-> Host, FTP_USERNAME |-> User, FTP_PASSWORD |-> Pass]

EnvOptional ==
    {"FTP_PORT", "FTP_REMOTE_DIR", "FTP_USE_TLS"}

EnvTlsValues == {<<"t", "r", "u", "e">>, <<"T", "R", "U", "E">>, <<"y", "e", "s">>}
EnvPortValues == {<<"2", "1">>, <<"a", "b", "c">>}

\* process environments: the variables that are set, with their values
Environments ==
    {[v \in DOMAIN EnvBase \cup keys |->
        CASE v = "FTP_PORT" -> port
          [] v = "FTP_REMOTE_DIR" -> "/data"
          [] v = "FTP_USE_TLS" -> tls
          [] OTHER -> EnvBase[v]] :
        keys \in SUBSET EnvOptional, port \in EnvPortValues, tls \in EnvTlsValues}
    \cup {Restrict(EnvBase, DOMAIN EnvBase \ {f}) : f \in DOMAIN EnvBase}
    \cup {[EnvBase EXCEPT ![f] = EmptyStr] : f \in DOMAIN EnvBase}

\* "a", e-acute, hiragana A, an emoji, a lone surrogate
CodePoints == {97, 233, 12354, 128512, 55296}

RECURSIVE SeqsUpTo(_, _)
SeqsUpTo(S, n) ==
    IF n = 0 THEN {<<>>}
    ELSE LET shorter == SeqsUpTo(S, n - 1)
         IN shorter \cup {Append(s, x) : s \in shorter, x \in S}

\* "a,b\n1,2\n"
ExampleContent == <<97, 44, 98, 10, 49, 44, 50, 10>>

\* one character of each UTF-8 width: 1 + 2 + 3 + 4 bytes
MixedContent == <<97, 233, 12354, 128512>>

Contents == SeqsUpTo(CodePoints, MaxContentLen) \cup {ExampleContent, MixedContent}

Filenames == {"visitor_data_20240101_1200.csv", "export.csv"}

Directories == {"/data", "/new"}

Resp226 == <<"2", "2", "6", " ", "T", "r", "a", "n", "s", "f", "e", "r", " ",
             "c", "o", "m", "p", "l", "e", "t", "e">>
Resp226Bare == <<"2", "2", "6">>
Resp250 == <<"2", "5", "0", " ", "O", "K">>
Resp22 == <<"2", "2">>

\* completion responses storbinary can return (voidresp accepts any 2xx)
StorResponses == {Resp226, Resp226Bare, Resp250, Resp22}

\* what nlst() can return
Listings ==
    {<<>>, <<"a.csv">>, <<"a.csv", "b.csv", "c.csv", "d.csv", "e.csv", "f.csv">>}

-----------------------------------------------------------------------------
(* FTPClient.__init__ and _validate_config *)

GetEnv(env, name, default) == IF name \in DOMAIN env THEN env[name] ELSE default

\* bool(config) of the constructor's argument
ArgTruthy(arg) == arg.kind = "dict" /\ DOMAIN arg.dict # {}

\* the dict built from the environment
EnvConfig(env) ==
    [hostname |-> GetEnv(env, "FTP_HOSTNAME", PyNone),
     username |-> GetEnv(env, "FTP_USERNAME", PyNone),
     password |-> GetEnv(env, "FTP_PASSWORD", PyNone),
     port |-> ParseInt(GetEnv(env, "FTP_PORT", <<"2", "1">>)),
     remote_dir |-> GetEnv(env, "FTP_REMOTE_DIR", "/"),
     use_tls |-> (Lower(GetEnv(env, "FTP_USE_TLS", <<"f", "a", "l", "s", "e">>))
                    = <<"t", "r", "u", "e">>)]

\* the fields _validate_config finds missing, in its order
MissingFields(c) ==
    SelectSeq(RequiredFields, LAMBDA f : ~Truthy(DictGet(c, f)))

\* faulty variant of ValidateConfig: the password is not among the required fields
ValidateConfig_NoPassword(c) ==
    IF Truthy(DictGet(c, "hostname")) /\ Truthy(DictGet(c, "username")) THEN NoExc
    ELSE [kind |-> "ValueError", msg |-> <<"FTP configuration missing: ", "hostname">>]

ValidateConfig(c) ==
    IF MissingFields(c) = <<>> THEN NoExc
    ELSE [kind |-> "ValueError",
          msg |-> <<"FTP configuration missing: ", Head(MissingFields(c))>>]

\* __init__: the self.config it assigns and the exception it raises
InitOutcome(arg, env) ==
    IF ArgTruthy(arg)
    THEN [config |-> arg.dict, exc |-> ValidateConfig(arg.dict)]
    ELSE IF ~IsDecimal(GetEnv(env, "FTP_PORT", <<"2", "1">>))
         THEN [config |-> EmptyDict, exc |-> ErrPort]
         ELSE [config |-> EnvConfig(env), exc |-> ValidateConfig(EnvConfig(env))]

-----------------------------------------------------------------------------
(* Results the operations build *)

Message(prefix, detail) == [prefix |-> prefix, detail |-> detail]

\* faulty variant of UploadReturn: the non-226 branch reports like the except clauses
UploadReturn_ErrorOnAnomaly(response, filename, csv_bytes) ==
    IF StartsWith(response, <<"2", "2", "6">>)
    THEN [success |-> TRUE, filename |-> filename, size_bytes |-> Len(csv_bytes),
          message |-> Message("Upload completed successfully", <<>>)]
    ELSE [success |-> FALSE, filename |-> filename, error |-> response,
          message |-> Message("FTP upload failed: ", response)]

\* upload_csv_string, after storbinary returned `response`
UploadReturn(response, filename, csv_bytes) ==
    IF StartsWith(response, <<"2", "2", "6">>)
    THEN [success |-> TRUE, filename |-> filename, size_bytes |-> Len(csv_bytes),
          message |-> Message("Upload completed successfully", <<>>)]
    ELSE [success |-> FALSE, filename |-> filename,
          message |-> Message("Unexpected FTP response: ", response)]

\* upload_csv_string's except clauses
UploadHandler(e, filename) ==
    IF IsAllErrors(e)
    THEN [success |-> FALSE, filename |-> filename, error |-> e.msg,
          message |-> Message("FTP upload failed: ", e.msg)]
    ELSE [success |-> FALSE, filename |-> filename, error |-> e.msg,
          message |-> Message("Unexpected error during upload: ", e.msg)]

\* ftp.nlst()[:5]
FirstFive(list) == SubSeq(list, 1, IF Len(list) < 5 THEN Len(list) ELSE 5)

TestReturn(current_dir, file_list) ==
    [success |-> TRUE, current_directory |-> current_dir, sample_files |-> file_list,
     message |-> Message("Connection test successful", <<>>)]

\* test_connection's except clause
TestHandler(e) ==
    [success |-> FALSE, error |-> e.msg,
     message |-> Message("FTP connection test failed: ", e.msg)]

BoolResult(b) == [value |-> b]

\* the except clause of the running operation
HandlerResult(o, e, a) ==
    CASE o \in {"upload_csv_string", "upload_csv_to_ftp"} -> UploadHandler(e, a.filename)
      [] o = "test_connection" -> TestHandler(e)
      [] OTHER -> BoolResult(FALSE)

\* faulty variant of CallOutcome: upload_csv_string without its `except Exception` clause
CallOutcome_OnlyFtpErrors(o, e, r, a) ==
    IF e = NoExc
    THEN [result |-> r, raised |-> NoExc]
    ELSE IF o \in {"upload_csv_string", "upload_csv_to_ftp"} /\ ~IsAllErrors(e)
         THEN [result |-> NoValue, raised |-> e]
         ELSE [result |-> HandlerResult(o, e, a), raised |-> NoExc]

\* faulty variant of CallOutcome: the auxiliary operations without their except clause
CallOutcome_AuxiliaryUnguarded(o, e, r, a) ==
    IF e = NoExc
    THEN [result |-> r, raised |-> NoExc]
    ELSE IF o \in {"test_connection", "create_directory_if_not_exists"}
         THEN [result |-> NoValue, raised |-> e]
         ELSE [result |-> HandlerResult(o, e, a), raised |-> NoExc]

\* what the caller of operation o receives when the with-statement ends with
\* exception e in flight (NoExc: the return statement r was executed): every
\* operation ends with an `except Exception` clause
CallOutcome(o, e, r, a) ==
    IF e = NoExc
    THEN [result |-> r, raised |-> NoExc]
    ELSE [result |-> HandlerResult(o, e, a), raised |-> NoExc]

\* faulty variant of AfterQuit: an except clause that lets the close failure out
AfterQuit_Propagates(pending, q) == IF q = NoExc THEN pending ELSE q

\* the exception in flight after the finally clause ran ftp.quit() with
\* outcome q (NoExc when quit returned): the bare except swallows q
AfterQuit(pending, q) == pending

\* one executed call: its name, the source line that makes it, its argument,
\* the exception it raised (NoExc when it returned) and the server's reply
Call(name, line, arg, err, reply) ==
    [cmd |-> name, line |-> line, arg |-> arg, err |-> err, reply |-> reply]

Returned(name, line, arg, reply) == Call(name, line, arg, NoExc, reply)

Failed(name, line, arg, e) == Call(name, line, arg, e, <<>>)

-----------------------------------------------------------------------------
(* State *)

\* no cron_csv_export request is being served
NoRequest == [pc |-> "none"]

\* the invocations of the endpoint that can run at the same time
Requests == {1, 2}

\* an invocation that has not arrived yet
NotStarted == [pc |-> "none"]

\* no export has run, and the clock reads t
NoExports(t) ==
    /\ now = t
    /\ ticks = 0
    /\ exports = [i \in Requests |-> NotStarted]
    /\ stored = <<>>
    /\ files = {}
    /\ overlaps = {}

Init ==
    /\ NoExports(12 * 3600)
    /\ pc = "idle"
    /\ op = "none"
    /\ args = <<>>
    /\ config = EmptyDict
    /\ constructed = FALSE
    /\ ftp = "None"
    /\ locals = <<>>
    /\ exc = NoExc
    /\ ret = NoValue
    /\ result = NoValue
    /\ raised = NoExc
    /\ calls = <<>>
    /\ endpoint = NoRequest

runVars == <<ftp, locals, exc, ret, result, raised, calls>>

\* an ftplib call either returns or raises one of StepErrors
Raise(e) ==
    /\ exc' = e
    /\ pc' = "finally"

-----------------------------------------------------------------------------
(* Calls *)

\* FTPClient(config), called directly
NewClient ==
    /\ pc = "idle"
    /\ endpoint.pc = "none"
    /\ \E arg \in ConfigArgs, env \in Environments :
        LET o == InitOutcome(arg, env)
        IN /\ config' = o.config
           /\ constructed' = (o.exc = NoExc)
           /\ raised' = o.exc
           /\ args' = [config |-> arg]
    /\ op' = "FTPClient"
    /\ pc' = "done"
    /\ UNCHANGED <<ftp, locals, exc, ret, result, calls>>
    /\ UNCHANGED endpoint
    /\ UNCHANGED exportVars

\* ftp_client = FTPClient(config), then ftp_client.upload_csv_string(...) starts
StartUploadCsvToFtp(content, filename, arg, env) ==
    LET o == InitOutcome(arg, env)
    IN /\ config' = o.config
       /\ constructed' = (o.exc = NoExc)
       /\ raised' = o.exc
       /\ pc' = IF o.exc = NoExc THEN "new_ftp" ELSE "done"
       /\ args' = [csv_content |-> content, filename |-> filename, config |-> arg]
       /\ op' = "upload_csv_to_ftp"
       /\ UNCHANGED <<ftp, locals, exc, ret, result, calls>>

\* upload_csv_to_ftp(csv_content, filename, config): constructs, then uploads
UploadCsvToFtp ==
    /\ pc = "idle"
    /\ endpoint.pc = "none"
    /\ \E content \in Contents, filename \in Filenames,
          arg \in ConfigArgs, env \in Environments :
        StartUploadCsvToFtp(content, filename, arg, env)
    /\ UNCHANGED endpoint
    /\ UNCHANGED exportVars

UploadCsvString ==
    /\ pc = "idle"
    /\ endpoint.pc = "none"
    /\ constructed
    /\ \E content \in Contents, filename \in Filenames :
        args' = [csv_content |-> content, filename |-> filename]
    /\ op' = "upload_csv_string"
    /\ pc' = "new_ftp"
    /\ UNCHANGED <<config, constructed, runVars>>
    /\ UNCHANGED endpoint
    /\ UNCHANGED exportVars

TestConnection ==
    /\ pc = "idle"
    /\ endpoint.pc = "none"
    /\ constructed
    /\ args' = <<>>
    /\ op' = "test_connection"
    /\ pc' = "new_ftp"
    /\ UNCHANGED <<config, constructed, runVars>>
    /\ UNCHANGED endpoint
    /\ UNCHANGED exportVars

CreateDirectoryIfNotExists ==
    /\ pc = "idle"
    /\ endpoint.pc = "none"
    /\ constructed
    /\ \E directory \in Directories : args' = [directory |-> directory]
    /\ op' = "create_directory_if_not_exists"
    /\ pc' = "new_ftp"
    /\ UNCHANGED <<config, constructed, runVars>>
    /\ UNCHANGED endpoint
    /\ UNCHANGED exportVars

-----------------------------------------------------------------------------
(* ftp_connection: the steps before the yield *)

\* ftplib.FTP_TLS() or ftplib.FTP()
NewFtp ==
    /\ pc = "new_ftp"
    /\ IF "use_tls" \notin DOMAIN config
       THEN /\ calls' = Append(calls, Failed("config[]", 52, "use_tls", KeyError("use_tls")))
            /\ Raise(KeyError("use_tls"))
            /\ UNCHANGED ftp
       ELSE /\ ftp' = IF config.use_tls THEN "FTP_TLS" ELSE "FTP"
            /\ calls' = Append(calls, Returned(IF config.use_tls THEN "FTP_TLS" ELSE "FTP",
                                               IF config.use_tls THEN 53 ELSE 56, "", <<>>))
            /\ pc' = "connect"
            /\ UNCHANGED exc
    /\ UNCHANGED <<op, args, config, constructed, locals, ret, result, raised>>
    /\ UNCHANGED endpoint
    /\ UNCHANGED exportVars

Connect ==
    /\ pc = "connect"
    /\ \/ /\ calls' = Append(calls, Returned("connect", 61, "", <<>>))
          /\ pc' = "login"
          /\ UNCHANGED exc
       \/ \E e \in StepErrors :
            /\ calls' = Append(calls, Failed("connect", 61, "", e))
            /\ Raise(e)
    /\ UNCHANGED <<op, args, config, constructed, ftp, locals, ret, result, raised>>
    /\ UNCHANGED endpoint
    /\ UNCHANGED exportVars

Login ==
    /\ pc = "login"
    /\ \/ /\ calls' = Append(calls, Returned("login", 64, "", <<>>))
          /\ pc' = "prot_p"
          /\ UNCHANGED exc
       \/ \E e \in StepErrors :
            /\ calls' = Append(calls, Failed("login", 64, "", e))
            /\ Raise(e)
    /\ UNCHANGED <<op, args, config, constructed, ftp, locals, ret, result, raised>>
    /\ UNCHANGED endpoint
    /\ UNCHANGED exportVars

\* faulty variant of NeedsProtP: the data channel is never protected
NeedsProtP_Never(c) == FALSE

\* self.config["use_tls"], as the condition of line 68
NeedsProtP(c) == c.use_tls

\* if use_tls: ftp.prot_p()
ProtP ==
    /\ pc = "prot_p"
    /\ IF NeedsProtP(config)
       THEN \/ /\ calls' = Append(calls, Returned("prot_p", 69, "", <<>>))
               /\ pc' = "set_pasv"
               /\ UNCHANGED exc
            \/ \E e \in StepErrors :
                 /\ calls' = Append(calls, Failed("prot_p", 69, "", e))
                 /\ Raise(e)
       ELSE /\ pc' = "set_pasv"
            /\ UNCHANGED <<calls, exc>>
    /\ UNCHANGED <<op, args, config, constructed, ftp, locals, ret, result, raised>>
    /\ UNCHANGED endpoint
    /\ UNCHANGED exportVars

\* ftp.set_pasv(True) only sets a flag of the client object
SetPasv ==
    /\ pc = "set_pasv"
    /\ calls' = Append(calls, Returned("set_pasv", 72, "", <<>>))
    /\ pc' = "cwd"
    /\ UNCHANGED <<op, args, config, constructed, ftp, locals, exc, ret, result, raised>>
    /\ UNCHANGED endpoint
    /\ UNCHANGED exportVars

\* where the with-body of the running operation starts
BodyStart(o) ==
    CASE o \in {"upload_csv_string", "upload_csv_to_ftp"} -> "encode"
      [] o = "test_connection" -> "pwd"
      [] OTHER -> "cwd_dir"

\* faulty variant of NeedsCwd: ftp_connection never changes directory
NeedsCwd_Never(c) == FALSE

\* self.config["remote_dir"] != "/"
NeedsCwd(c) == c.remote_dir # "/"

\* if remote_dir != "/": ftp.cwd(remote_dir); then yield
Cwd ==
    /\ pc = "cwd"
    /\ IF "remote_dir" \notin DOMAIN config
       THEN /\ calls' = Append(calls, Failed("config[]", 75, "remote_dir", KeyError("remote_dir")))
            /\ Raise(KeyError("remote_dir"))
       ELSE IF NeedsCwd(config)
       THEN \/ /\ calls' = Append(calls, Returned("cwd", 76, config.remote_dir, <<>>))
               /\ pc' = BodyStart(op)
               /\ UNCHANGED exc
            \/ \E e \in StepErrors :
                 /\ calls' = Append(calls, Failed("cwd", 76, config.remote_dir, e))
                 /\ Raise(e)
       ELSE /\ pc' = BodyStart(op)
            /\ UNCHANGED <<calls, exc>>
    /\ UNCHANGED <<op, args, config, constructed, ftp, locals, ret, result, raised>>
    /\ UNCHANGED endpoint
    /\ UNCHANGED exportVars

-----------------------------------------------------------------------------
(* upload_csv_string: the with-body *)

\* csv_bytes = csv_content.encode('utf-8')
Encode ==
    /\ pc = "encode"
    /\ IF EncodeRaises(args.csv_content)
       THEN /\ calls' = Append(calls, Failed("encode", 109, "", ErrEncode))
            /\ Raise(ErrEncode)
            /\ UNCHANGED locals
       ELSE /\ locals' = [csv_bytes |-> Utf8Encode(args.csv_content)]
            /\ calls' = Append(calls, Returned("encode", 109, "", <<>>))
            /\ pc' = "stor"
            /\ UNCHANGED exc
    /\ UNCHANGED <<op, args, config, constructed, ftp, ret, result, raised>>
    /\ UNCHANGED endpoint
    /\ UNCHANGED exportVars

\* result = ftp.storbinary(f'STOR {filename}', csv_stream), and the return
Stor ==
    /\ pc = "stor"
    /\ \/ \E response \in StorResponses :
            /\ calls' = Append(calls, Returned("stor", 114, args.filename, response))
            /\ ret' = UploadReturn(response, args.filename, locals.csv_bytes)
            /\ pc' = "finally"
            /\ UNCHANGED exc
       \/ \E e \in StepErrors :
            /\ calls' = Append(calls, Failed("stor", 114, args.filename, e))
            /\ Raise(e)
            /\ UNCHANGED ret
    /\ UNCHANGED <<op, args, config, constructed, ftp, locals, result, raised>>
    /\ UNCHANGED endpoint
    /\ UNCHANGED exportVars

-----------------------------------------------------------------------------
(* test_connection: the with-body *)

\* current_dir = ftp.pwd()
Pwd ==
    /\ pc = "pwd"
    /\ \/ \E dir \in RemoteDirs :
            /\ calls' = Append(calls, Returned("pwd", 161, "", <<>>))
            /\ locals' = [current_dir |-> dir]
            /\ pc' = "nlst"
            /\ UNCHANGED exc
       \/ \E e \in StepErrors :
            /\ calls' = Append(calls, Failed("pwd", 161, "", e))
            /\ Raise(e)
            /\ UNCHANGED locals
    /\ UNCHANGED <<op, args, config, constructed, ftp, ret, result, raised>>
    /\ UNCHANGED endpoint
    /\ UNCHANGED exportVars

\* file_list = ftp.nlst()[:5], or the placeholder when nlst raises; the return
Nlst ==
    /\ pc = "nlst"
    /\ \/ \E list \in Listings :
            /\ calls' = Append(calls, Returned("nlst", 166, "", <<>>))
            /\ ret' = TestReturn(locals.current_dir, FirstFive(list))
       \/ \E e \in StepErrors :
            /\ calls' = Append(calls, Failed("nlst", 166, "", e))
            /\ ret' = TestReturn(locals.current_dir, <<"(unable to list files)">>)
    /\ pc' = "finally"
    /\ UNCHANGED <<op, args, config, constructed, ftp, locals, exc, result, raised>>
    /\ UNCHANGED endpoint
    /\ UNCHANGED exportVars

-----------------------------------------------------------------------------
(* create_directory_if_not_exists: the with-body *)

\* ftp.cwd(directory); error_perm is caught by the inner except
CwdDirectory ==
    /\ pc = "cwd_dir"
    /\ \/ /\ calls' = Append(calls, Returned("cwd", 200, args.directory, <<>>))
          /\ ret' = BoolResult(TRUE)
          /\ pc' = "finally"
          /\ UNCHANGED exc
       \/ \E e \in StepErrors :
            /\ calls' = Append(calls, Failed("cwd", 200, args.directory, e))
            /\ IF IsErrorPerm(e)
               THEN pc' = "mkd" /\ UNCHANGED exc
               ELSE Raise(e)
            /\ UNCHANGED ret
    /\ UNCHANGED <<op, args, config, constructed, ftp, locals, result, raised>>
    /\ UNCHANGED endpoint
    /\ UNCHANGED exportVars

\* ftp.mkd(directory) inside the inner except clause
Mkd ==
    /\ pc = "mkd"
    /\ \/ /\ calls' = Append(calls, Returned("mkd", 205, args.directory, <<>>))
          /\ ret' = BoolResult(TRUE)
          /\ pc' = "finally"
          /\ UNCHANGED exc
       \/ \E e \in StepErrors :
            /\ calls' = Append(calls, Failed("mkd", 205, args.directory, e))
            /\ Raise(e)
            /\ UNCHANGED ret
    /\ UNCHANGED <<op, args, config, constructed, ftp, locals, result, raised>>
    /\ UNCHANGED endpoint
    /\ UNCHANGED exportVars

-----------------------------------------------------------------------------
(* ftp_connection: the finally clause; the operation's except clauses *)

\* faulty variant of ShouldQuit: the connection is closed on the success path only
ShouldQuit_OnSuccessOnly(f, pending) == f # "None" /\ pending = NoExc

\* the condition of line 88: `if ftp:`
ShouldQuit(f, pending) == f # "None"

\* if ftp: try ftp.quit() except: log
Finally ==
    /\ pc = "finally"
    /\ IF ShouldQuit(ftp, exc)
       THEN \/ /\ calls' = Append(calls, Returned("quit", 90, "", <<>>))
               /\ exc' = AfterQuit(exc, NoExc)
            \/ \E q \in QuitErrors :
                 /\ calls' = Append(calls, Failed("quit", 90, "", q))
                 /\ exc' = AfterQuit(exc, q)
       ELSE UNCHANGED <<calls, exc>>
    /\ pc' = "handler"
    /\ UNCHANGED <<op, args, config, constructed, ftp, locals, ret, result, raised>>
    /\ UNCHANGED endpoint
    /\ UNCHANGED exportVars

\* the value the operation hands to its caller: the executed return's value,
\* or what its except clause builds from the exception in flight
Handler ==
    /\ pc = "handler"
    /\ result' = CallOutcome(op, exc, ret, args).result
    /\ raised' = CallOutcome(op, exc, ret, args).raised
    /\ exc' = NoExc
    /\ pc' = "done"
    /\ UNCHANGED <<op, args, config, constructed, ftp, locals, ret, calls>>
    /\ UNCHANGED endpoint
    /\ UNCHANGED exportVars

\* the caller continues; the call's frame is gone, a client that failed to
\* construct does not exist
Return ==
    /\ pc = "done"
    /\ endpoint.pc = "none"
    /\ pc' = "idle"
    /\ op' = "none"
    /\ args' = <<>>
    /\ config' = IF constructed THEN config ELSE EmptyDict
    /\ ftp' = "None"
    /\ locals' = <<>>
    /\ exc' = NoExc
    /\ ret' = NoValue
    /\ result' = NoValue
    /\ raised' = NoExc
    /\ calls' = <<>>
    /\ UNCHANGED constructed
    /\ UNCHANGED endpoint
    /\ UNCHANGED exportVars

-----------------------------------------------------------------------------
(* The clock, and what the code prints of it.  A reading is the number of   *)
(* seconds since 2024-01-01 00:00:00 local time, within January 2024.       *)

Pad2(n) == IF n < 10 THEN "0" \o ToString(n) ELSE ToString(n)

DayOfMonth(t) == 1 + (t \div 86400)
Hour(t) == (t \div 3600) % 24
Minute(t) == (t \div 60) % 60
Second(t) == t % 60

\* strftime("%Y%m%d_%H%M")
Strftime(t) ==
    "202401" \o Pad2(DayOfMonth(t)) \o "_" \o Pad2(Hour(t)) \o Pad2(Minute(t))

\* faulty variant of GenerateFilename: the name carries the seconds too
GenerateFilename_ToTheSecond(t) ==
    "visitor_data_" \o Strftime(t) \o Pad2(Second(t)) \o ".csv"

\* generate_filename() when datetime.now() reads t
GenerateFilename(t) == "visitor_data_" \o Strftime(t) \o ".csv"

\* datetime.now(...).isoformat(), to the second
IsoFormat(t) ==
    "2024-01-" \o Pad2(DayOfMonth(t)) \o "T" \o Pad2(Hour(t)) \o ":"
        \o Pad2(Minute(t)) \o ":" \o Pad2(Second(t))

\* 12:00:30 and 12:01:00 on 2024-01-01
ClockReadings == {12 * 3600 + 30, 12 * 3600 + 60}

-----------------------------------------------------------------------------
(* cron_csv_export: the endpoint *)

\* what generate_csv_data(data_type="current") returns: a header and one row
GeneratedCsv == {ExampleContent}

\* an exception out of generate_csv_data or generate_filename
ErrGenerate == [kind |-> "RuntimeError", msg |-> <<"generation failed">>]

JsonResponse(status_code, content) == [status_code |-> status_code, content |-> content]

\* faulty variant of UploadResponse: the else branch answers with HTTP 200
UploadResponse_FailureIs200(upload_result, filename, t) ==
    JsonResponse(200,
        [status |-> IF upload_result.success THEN "success" ELSE "error",
         message |-> Message(IF upload_result.success
                             THEN "CSV export completed successfully"
                             ELSE "CSV export failed", <<>>),
         filename |-> filename,
         timestamp |-> IsoFormat(t),
         upload_details |-> upload_result])

\* the response of the `if upload_result["success"]` statement
UploadResponse(upload_result, filename, t) ==
    IF upload_result.success
    THEN JsonResponse(200,
            [status |-> "success",
             message |-> Message("CSV export completed successfully", <<>>),
             filename |-> filename,
             timestamp |-> IsoFormat(t),
             upload_details |-> upload_result])
    ELSE JsonResponse(500,
            [status |-> "error",
             message |-> Message("CSV export failed", <<>>),
             filename |-> filename,
             timestamp |-> IsoFormat(t),
             error_details |-> upload_result])

\* the response of the `except Exception as e` clause
ExceptionResponse(e, t) ==
    JsonResponse(500,
        [status |-> "error",
         message |-> Message("Unexpected error in cron job: ", e.msg),
         timestamp |-> IsoFormat(t)])

Responded(stage, response) == [pc |-> "responded", stage |-> stage, response |-> response]

\* a request arrives: generate_csv_data, generate_filename, then the call of
\* upload_csv_to_ftp(csv_content, filename); an exception of the first two
\* goes straight to the except clause
CronCsvExport ==
    /\ pc = "idle"
    /\ endpoint.pc = "none"
    /\ \/ \E stage \in {"generate_csv_data", "generate_filename"}, t \in ClockReadings :
            /\ endpoint' = Responded(stage, ExceptionResponse(ErrGenerate, t))
            /\ UNCHANGED <<pc, op, args, config, constructed, runVars>>
       \/ \E content \in GeneratedCsv, t \in ClockReadings, env \in Environments :
            /\ StartUploadCsvToFtp(content, GenerateFilename(t), ArgNone, env)
            /\ endpoint' = [pc |-> "upload", csv_content |-> content,
                            filename |-> GenerateFilename(t), read_at |-> t]
    /\ UNCHANGED exportVars

\* upload_csv_to_ftp has returned or raised: the endpoint builds its response
CronRespond ==
    /\ pc = "done"
    /\ endpoint.pc = "upload"
    /\ \E t \in ClockReadings :
        /\ t >= endpoint.read_at
        /\ endpoint' =
              Responded("upload_csv_to_ftp",
                        IF raised # NoExc
                        THEN ExceptionResponse(raised, t)
                        ELSE UploadResponse(result, endpoint.filename, t))
    /\ UNCHANGED <<pc, op, args, config, constructed, runVars>>
    /\ UNCHANGED exportVars

\* the response is sent; the request is over, and with it the frame of
\* upload_csv_to_ftp when that was called
CronReturn ==
    /\ endpoint.pc = "responded"
    /\ endpoint' = NoRequest
    /\ pc' = "idle"
    /\ op' = "none"
    /\ args' = <<>>
    /\ config' = IF constructed THEN config ELSE EmptyDict
    /\ ftp' = "None"
    /\ locals' = <<>>
    /\ exc' = NoExc
    /\ ret' = NoValue
    /\ result' = NoValue
    /\ raised' = NoExc
    /\ calls' = <<>>
    /\ UNCHANGED constructed
    /\ UNCHANGED exportVars

-----------------------------------------------------------------------------

\* the steps of a call that is running
RunStep ==
    \/ NewFtp \/ Connect \/ Login \/ ProtP \/ SetPasv \/ Cwd
    \/ Encode \/ Stor
    \/ Pwd \/ Nlst
    \/ CwdDirectory \/ Mkd
    \/ Finally \/ Handler

Next ==
    \/ NewClient
    \/ UploadCsvToFtp
    \/ UploadCsvString
    \/ TestConnection
    \/ CreateDirectoryIfNotExists
    \/ RunStep
    \/ Return
    \/ CronCsvExport
    \/ CronRespond
    \/ CronReturn

Spec == Init /\ [][Next]_vars

\* a call that has started runs on: the interpreter executes its statements
\* one after the other, and each ftplib call returns or raises
FairSpec == Spec /\ WF_vars(RunStep)

-----------------------------------------------------------------------------
(* Concurrent invocations of cron_csv_export.  Each invocation runs the     *)
(* statements of the endpoint on its own: it computes its filename from the *)
(* clock, constructs its own client, opens its own connection, stores, and  *)
(* closes.  Nothing coordinates them; all use the same server and the same  *)
(* remote_dir.                                                              *)

\* 11:59:20 and 23:59:20 on 2024-01-01: the minute, the hour and the day change
StartTimes == {11 * 3600 + 59 * 60 + 20, 23 * 3600 + 59 * 60 + 20}

\* the seconds that pass between two observations of the clock
TickLengths == {20, 40}

ExportInit ==
    /\ \E t \in StartTimes : NoExports(t)
    /\ pc = "idle"
    /\ op = "none"
    /\ args = <<>>
    /\ config = EmptyDict
    /\ constructed = FALSE
    /\ ftp = "None"
    /\ locals = <<>>
    /\ exc = NoExc
    /\ ret = NoValue
    /\ result = NoValue
    /\ raised = NoExc
    /\ calls = <<>>
    /\ endpoint = NoRequest

Running(i) == exports[i].pc \notin {"none", "done"}

\* time passes
Tick ==
    /\ ticks < MaxTicks
    /\ \E d \in TickLengths : now' = now + d
    /\ ticks' = ticks + 1
    /\ UNCHANGED <<exports, stored, files, overlaps>>
    /\ UNCHANGED clientVars

\* an invocation arrives and generates its CSV data
ExportStart ==
    /\ \E i \in Requests :
        /\ exports[i].pc = "none"
        /\ exports' = [exports EXCEPT ![i] = [pc |-> "generate_filename"]]
        /\ overlaps' = overlaps \cup {{i, j} : j \in {k \in Requests : k # i /\ Running(k)}}
    /\ UNCHANGED <<now, ticks, stored, files>>
    /\ UNCHANGED clientVars

\* filename = generate_filename(): the clock is read here
ExportGenerateFilename ==
    /\ \E i \in Requests :
        /\ exports[i].pc = "generate_filename"
        /\ exports' = [exports EXCEPT ![i] =
                          [pc |-> "connect", filename |-> GenerateFilename(now),
                           read_at |-> now]]
    /\ UNCHANGED <<now, ticks, stored, files, overlaps>>
    /\ UNCHANGED clientVars

\* upload_csv_to_ftp: the invocation's own client opens its own connection
\* (construction, connect, login, prot_p, set_pasv, cwd), or fails to
ExportConnect ==
    /\ \E i \in Requests, ok \in BOOLEAN :
        /\ exports[i].pc = "connect"
        /\ exports' = [exports EXCEPT ![i].pc = IF ok THEN "stor" ELSE "done"]
    /\ UNCHANGED <<now, ticks, stored, files, overlaps>>
    /\ UNCHANGED clientVars

\* a STOR command of invocation i under the name it computed
StorCommand(i, accepted) ==
    [by |-> i, filename |-> exports[i].filename, read_at |-> exports[i].read_at,
     accepted |-> accepted]

\* the server's directory after an accepted STOR: the file of that name is
\* replaced, or created
Replace(dir, c) ==
    {f \in dir : f.filename # c.filename} \cup {[filename |-> c.filename, by |-> c.by]}

\* ftp.storbinary(f'STOR {filename}', csv_file): the server replaces or rejects
ExportStor ==
    /\ \E i \in Requests, accepted \in BOOLEAN :
        /\ exports[i].pc = "stor"
        /\ stored' = Append(stored, StorCommand(i, accepted))
        /\ files' = IF accepted THEN Replace(files, StorCommand(i, accepted)) ELSE files
        /\ exports' = [exports EXCEPT ![i].pc = "quit"]
    /\ UNCHANGED <<now, ticks, overlaps>>
    /\ UNCHANGED clientVars

\* the connection is closed and the invocation answers
ExportFinish ==
    /\ \E i \in Requests :
        /\ exports[i].pc = "quit"
        /\ exports' = [exports EXCEPT ![i].pc = "done"]
    /\ UNCHANGED <<now, ticks, stored, files, overlaps>>
    /\ UNCHANGED clientVars

ExportNext ==
    \/ Tick
    \/ ExportStart
    \/ ExportGenerateFilename
    \/ ExportConnect
    \/ ExportStor
    \/ ExportFinish

ExportSpec == ExportInit /\ [][ExportNext]_vars

-----------------------------------------------------------------------------
(* Vocabulary of the properties *)

UploadOps == {"upload_csv_string", "upload_csv_to_ftp"}

\* upload_csv_string is running or has run (by itself or inside upload_csv_to_ftp)
InUploadCsvString ==
    \/ op = "upload_csv_string"
    \/ op = "upload_csv_to_ftp" /\ constructed

\* the calls that talk to the FTP server, the closing QUIT apart
ServerCalls == {"connect", "login", "prot_p", "cwd", "stor", "pwd", "nlst", "mkd"}

Ok(c) == c.err = NoExc

Last(s) == s[Len(s)]

\* the calls of this run other than the closing one
Work == SelectSeq(calls, LAMBDA c : c.cmd # "quit")

\* a step of ftp_connection or of an upload that the server can fail has failed
ServerStepFailed ==
    \E i \in 1..Len(calls) :
        calls[i].cmd \in {"connect", "login", "prot_p", "cwd", "stor"} /\ ~Ok(calls[i])

\* the exception of the (only) call that raised out of the with-statement
FirstFailure == Head(SelectSeq(Work, LAMBDA c : ~Ok(c))).err

Begins226(r) == Len(r) >= 3 /\ r[1] = "2" /\ r[2] = "2" /\ r[3] = "6"

StorReturned == \E i \in 1..Len(calls) : calls[i].cmd = "stor" /\ Ok(calls[i])

StorReply == Head(SelectSeq(calls, LAMBDA c : c.cmd = "stor")).reply

\* number of bytes of the UTF-8 form of one code point (RFC 3629)
Utf8Width(cp) ==
    IF cp <= 127 THEN 1 ELSE IF cp <= 2047 THEN 2 ELSE IF cp <= 65535 THEN 3 ELSE 4

RECURSIVE Utf8ByteLength(_)
Utf8ByteLength(s) ==
    IF s = <<>> THEN 0 ELSE Utf8Width(Head(s)) + Utf8ByteLength(Tail(s))

-----------------------------------------------------------------------------
(* C1 *)

\* C1: whenever a step the FTP server can fail (connect, login, data-channel
\* protection, directory change, transfer) has failed in an upload, the caller
\* of upload_csv_string receives no exception but a result with success = false
\* whose error field is the text of that failure and which carries a message.
C1_UploadFailureIsResult ==
    (pc = "done" /\ InUploadCsvString /\ ServerStepFailed) =>
        /\ raised = NoExc
        /\ DOMAIN result = {"success", "filename", "error", "message"}
        /\ result.success = FALSE
        /\ result.filename = args.filename
        /\ result.error = FirstFailure.msg
        /\ result.message.detail = FirstFailure.msg
        /\ result.message.prefix # ""

\* an upload whose transfer the server rejected has returned
C1_Witness ==
    /\ pc = "done"
    /\ op = "upload_csv_string"
    /\ \E i \in 1..Len(calls) : calls[i].cmd = "stor" /\ calls[i].err = ErrValue
    /\ result.success = FALSE

-----------------------------------------------------------------------------
(* C2 *)

QuitCount == Len(SelectSeq(calls, LAMBDA c : c.cmd = "quit"))

\* the run's cleanup has happened: the close was attempted, and last
Closed == calls # <<>> /\ Last(calls).cmd = "quit"

\* no second QUIT, nothing after the QUIT, and once the with-statement is left
\* with a client object created the QUIT has been attempted
C2_CloseOnceAndLast ==
    /\ QuitCount <= 1
    /\ QuitCount = 1 => Closed
    /\ (ftp # "None" /\ pc \in {"handler", "done"}) => QuitCount = 1

\* C2: in every run, whatever its outcome, once the ftplib client object has
\* been created the close (QUIT) of the control connection is eventually
\* attempted, exactly once, and after every other call of the run.
C2_AlwaysClosed ==
    /\ [](C2_CloseOnceAndLast)
    /\ (ftp # "None") ~> (ftp # "None" /\ Closed)

\* a run whose login was rejected has attempted its QUIT
C2_Witness ==
    /\ pc = "done"
    /\ Closed
    /\ \E i \in 1..Len(calls) : calls[i].cmd = "login" /\ ~Ok(calls[i])

-----------------------------------------------------------------------------
(* C3 *)

\* C3: the finally clause never changes what the caller receives: whether
\* ftp.quit() returns or raises, the result (and the absence of an exception)
\* the caller gets after the clause is the one it would have got before it.
C3_CloseFailureInvisible ==
    [][pc = "finally" =>
         /\ CallOutcome(op, exc', ret', args') = CallOutcome(op, exc, ret, args)
         /\ CallOutcome(op, exc', ret', args').raised = NoExc]_vars

\* a successful upload whose QUIT raised has returned its success result
C3_Witness ==
    /\ pc = "done"
    /\ InUploadCsvString
    /\ Closed
    /\ ~Ok(Last(calls))
    /\ raised = NoExc
    /\ result.success = TRUE

-----------------------------------------------------------------------------
(* C4 *)

\* C4: when the store returned a completion response beginning with 226, the
\* upload returns success = true, the filename it was given, and size_bytes
\* equal to the UTF-8 byte length of the content.
C4_UploadSuccess ==
    (pc = "done" /\ InUploadCsvString /\ StorReturned /\ Begins226(StorReply)) =>
        /\ raised = NoExc
        /\ DOMAIN result = {"success", "filename", "size_bytes", "message"}
        /\ result.success = TRUE
        /\ result.filename = args.filename
        /\ result.size_bytes = Utf8ByteLength(args.csv_content)

\* the end-to-end scenario of the specification: 8 bytes, "226 Transfer complete"
C4_Witness ==
    /\ pc = "done"
    /\ InUploadCsvString
    /\ args.csv_content = ExampleContent
    /\ args.filename = "visitor_data_20240101_1200.csv"
    /\ StorReturned
    /\ StorReply = Resp226
    /\ result.success = TRUE
    /\ result.size_bytes = 8

-----------------------------------------------------------------------------
(* C5 *)

\* C5: when the store returned a completion response that does not begin with
\* 226 the upload returns, without raising, success = false with the raw
\* response in its message and neither an error nor a size_bytes field; and a
\* result of an upload has an error field only when a call raised.
C5_ProtocolAnomaly ==
    (pc = "done" /\ InUploadCsvString) =>
        /\ (StorReturned /\ ~Begins226(StorReply)) =>
              /\ raised = NoExc
              /\ DOMAIN result = {"success", "filename", "message"}
              /\ result.success = FALSE
              /\ result.filename = args.filename
              /\ result.message.detail = StorReply
        /\ "error" \in DOMAIN result => \E i \in 1..Len(Work) : ~Ok(Work[i])

\* an upload that the server answered with "250 OK" has returned
C5_Witness ==
    /\ pc = "done"
    /\ InUploadCsvString
    /\ StorReturned
    /\ StorReply = Resp250
    /\ result.success = FALSE

-----------------------------------------------------------------------------
(* C6 *)

IsPrefix(s, t) == Len(s) <= Len(t) /\ SubSeq(t, 1, Len(s)) = s

\* the steps of one upload, in the order the specification gives them
UploadOrder(c) ==
    IF "use_tls" \notin DOMAIN c THEN <<>>
    ELSE <<"connect", "login">>
         \o (IF c.use_tls THEN <<"prot_p">> ELSE <<>>)
         \o <<"set_pasv">>
         \o (IF "remote_dir" \notin DOMAIN c THEN <<>>
             ELSE (IF c.remote_dir # "/" THEN <<"cwd">> ELSE <<>>) \o <<"stor">>)

ProtocolSteps ==
    SelectSeq(calls, LAMBDA c : c.cmd \in {"connect", "login", "prot_p", "set_pasv", "cwd", "stor"})

StepNames(s) == [i \in 1..Len(s) |-> s[i].cmd]

\* C6: the protocol steps of an upload are an initial part of connect, login,
\* data-channel protection (use_tls only), passive mode, directory change
\* (remote_dir not "/" only), store: in that order, none twice; and every step
\* before the last one made has succeeded, so nothing follows a failed step.
C6_StrictOrder ==
    (pc # "idle" /\ InUploadCsvString) =>
        /\ IsPrefix(StepNames(ProtocolSteps), UploadOrder(config))
        /\ \A i \in 1..(Len(ProtocolSteps) - 1) : Ok(ProtocolSteps[i])

\* a TLS upload into a subdirectory has issued all six steps
C6_Witness ==
    /\ InUploadCsvString
    /\ StepNames(ProtocolSteps) = <<"connect", "login", "prot_p", "set_pasv", "cwd", "stor">>

-----------------------------------------------------------------------------
(* C7 *)

\* a required field is missing from the dict, None or empty
RequiredEmpty(c) ==
    \E f \in {"hostname", "username", "password"} :
        f \notin DOMAIN c \/ c[f] = PyNone \/ c[f] = EmptyStr

Constructing == op \in {"FTPClient", "upload_csv_to_ftp"}

\* C7: a client whose configuration lacks hostname, username or password is
\* never constructed and never makes a call: construction raises ValueError
\* with nothing issued; a dict passed in is taken as it is, nothing filled in.
C7_FailsFastAtConstruction ==
    /\ RequiredEmpty(config) =>
          /\ ~constructed
          /\ calls = <<>>
          /\ ftp = "None"
          /\ pc \in {"idle", "done"}
          /\ pc = "done" => raised.kind = "ValueError" /\ result = NoValue
    /\ (Constructing /\ ArgTruthy(args.config)) => config = args.config.dict
    /\ constructed => ~RequiredEmpty(config)

\* construction with an empty password has raised
C7_Witness ==
    /\ pc = "done"
    /\ op = "FTPClient"
    /\ "password" \in DOMAIN config
    /\ config.password = EmptyStr
    /\ raised = [kind |-> "ValueError", msg |-> <<"FTP configuration missing: ", "password">>]

-----------------------------------------------------------------------------
(* C8 *)

PublicOps ==
    {"upload_csv_to_ftp", "upload_csv_string", "test_connection",
     "create_directory_if_not_exists"}

\* a dict with a success flag, or a bool
DescribesOutcome(r) ==
    \/ "success" \in DOMAIN r /\ r.success \in BOOLEAN /\ "message" \in DOMAIN r
    \/ DOMAIN r = {"value"} /\ r.value \in BOOLEAN

\* C8 as stated: every public operation of the upload layer, upload_csv_to_ftp
\* included, returns a value describing success or failure for every input and
\* configuration, also one that lacks hostname, username or password, and
\* never raises.
C8_NoPublicOperationRaises ==
    (pc = "done" /\ op \in PublicOps) =>
        /\ raised = NoExc
        /\ DescribesOutcome(result)

\* C8 as amended: the three methods of a constructed client always return a
\* value describing success or failure; upload_csv_to_ftp does so whenever the
\* construction of its client succeeds, and otherwise hands the constructor's
\* ValueError to its caller, with no value returned and no call made.
C8_RaisesOnlyFromConstruction ==
    (pc = "done" /\ op \in PublicOps) =>
        IF op = "upload_csv_to_ftp" /\ ~constructed
        THEN /\ raised.kind = "ValueError"
             /\ result = NoValue
             /\ calls = <<>>
             /\ RequiredEmpty(config)
        ELSE /\ raised = NoExc
             /\ DescribesOutcome(result)
             /\ ~RequiredEmpty(config)

\* upload_csv_to_ftp with a config that lacks the hostname has raised
C8_Witness ==
    /\ pc = "done"
    /\ op = "upload_csv_to_ftp"
    /\ args.config.kind = "dict"
    /\ "username" \in DOMAIN args.config.dict
    /\ "hostname" \notin DOMAIN args.config.dict
    /\ raised = [kind |-> "ValueError", msg |-> <<"FTP configuration missing: ", "hostname">>]

-----------------------------------------------------------------------------
(* C9 *)

\* C9 as stated: test_connection issues no directory-change and no store
\* command, whatever remote_dir is, so a remote_dir the server does not have
\* cannot make the connection test fail.
C9_NoDirectoryChange ==
    op = "test_connection" =>
        \A i \in 1..Len(calls) : calls[i].cmd \notin {"cwd", "stor"}

\* the steps of one connection test
TestOrder(c) ==
    IF "use_tls" \notin DOMAIN c THEN <<>>
    ELSE <<"connect", "login">>
         \o (IF c.use_tls THEN <<"prot_p">> ELSE <<>>)
         \o <<"set_pasv">>
         \o (IF "remote_dir" \notin DOMAIN c THEN <<>>
             ELSE (IF c.remote_dir # "/" THEN <<"cwd">> ELSE <<>>) \o <<"pwd", "nlst">>)

TestSteps ==
    SelectSeq(calls, LAMBDA c : c.cmd \in ServerCalls \cup {"set_pasv"})

\* C9 as amended: test_connection performs steps 1-5 (connect, login,
\* data-channel protection when use_tls, passive mode, and the change into
\* remote_dir when remote_dir is not "/"), then queries the working directory
\* and a listing, and never issues a store; it succeeds exactly when every
\* step up to the working-directory query succeeded, so a rejected change into
\* remote_dir makes it return success = false.
C9_TestUsesUploadConnection ==
    (pc # "idle" /\ op = "test_connection") =>
        /\ IsPrefix(StepNames(TestSteps), TestOrder(config))
        /\ \A i \in 1..(Len(TestSteps) - 1) : Ok(TestSteps[i])
        /\ pc = "done" =>
              /\ raised = NoExc
              /\ result.success =
                    (\E i \in 1..Len(calls) : calls[i].cmd = "pwd" /\ Ok(calls[i]))
              /\ (\E i \in 1..Len(calls) : calls[i].cmd = "cwd" /\ ~Ok(calls[i]))
                    => result.success = FALSE

\* a connection test has failed because the change into remote_dir was rejected
C9_Witness ==
    /\ pc = "done"
    /\ op = "test_connection"
    /\ "remote_dir" \in DOMAIN config
    /\ config.remote_dir = "/data"
    /\ Work # <<>>
    /\ Last(Work) = Failed("cwd", 76, "/data", ErrPerm)
    /\ result.success = FALSE
    /\ result.error = ErrPerm.msg

-----------------------------------------------------------------------------
(* C10 *)

\* the calls the with-body of create_directory_if_not_exists made
DirectoryCalls == SelectSeq(calls, LAMBDA c : c.line \in {200, 205})

ChangedInto(path) ==
    \E i \in 1..Len(DirectoryCalls) :
        DirectoryCalls[i] = Returned("cwd", 200, path, <<>>)

Created(path) ==
    \E i \in 1..Len(DirectoryCalls) :
        DirectoryCalls[i] = Returned("mkd", 205, path, <<>>)

\* C10: create_directory_if_not_exists(path) never raises; it returns true
\* exactly when the change into path succeeded (and then no create is issued)
\* or the create of path succeeded, and false in every other case; a create is
\* issued only for path and only right after the change into path was rejected
\* with a permanent error (error_perm).
C10_EnsureDirectory ==
    op = "create_directory_if_not_exists" =>
        /\ \A i \in 1..Len(calls) :
              calls[i].cmd = "mkd" =>
                 /\ calls[i].arg = args.directory
                 /\ i > 1
                 /\ calls[i - 1].cmd = "cwd"
                 /\ calls[i - 1].line = 200
                 /\ calls[i - 1].arg = args.directory
                 /\ calls[i - 1].err.kind = "error_perm"
        /\ ChangedInto(args.directory) => Len(DirectoryCalls) = 1
        /\ pc = "done" =>
              /\ raised = NoExc
              /\ result = BoolResult(ChangedInto(args.directory) \/ Created(args.directory))

\* a missing directory has been created
C10_Witness ==
    /\ pc = "done"
    /\ op = "create_directory_if_not_exists"
    /\ Created("/new")
    /\ result = BoolResult(TRUE)

-----------------------------------------------------------------------------
(* C11 *)

\* the endpoint has built the response it is about to send
HasResponded == endpoint.pc = "responded"

\* upload_csv_to_ftp returned a result, and its success field is true
UploadSucceeded ==
    /\ endpoint.stage = "upload_csv_to_ftp"
    /\ raised = NoExc
    /\ "success" \in DOMAIN result
    /\ result.success

\* upload_csv_to_ftp returned a result, whatever it says
UploadReturned ==
    /\ endpoint.stage = "upload_csv_to_ftp"
    /\ raised = NoExc

\* C11 as the specification states it: the endpoint answers 200 with status
\* "success" and upload_details exactly when the upload result has
\* success = true and 500 with status "error" otherwise, and every response,
\* the one of a raising stage included, contains status, message, filename
\* and timestamp.
C11_EveryResponseHasFilename ==
    HasResponded =>
        LET r == endpoint.response
        IN /\ r.status_code \in {200, 500}
           /\ (r.status_code = 200) <=> UploadSucceeded
           /\ r.status_code = 200 =>
                /\ r.content.status = "success"
                /\ "upload_details" \in DOMAIN r.content
           /\ r.status_code = 500 => r.content.status = "error"
           /\ {"status", "message", "filename", "timestamp"} \subseteq DOMAIN r.content

\* C11, amended: the endpoint always answers with a response of status code
\* 200 or 500 that contains status, message and timestamp.  It answers 200
\* with status "success", the filename and upload_details = the upload
\* result exactly when the upload result has success = true; 500 with status
\* "error", the filename and error_details = the upload result when the
\* upload result has success = false; and when generation, filename creation
\* or client construction raises, 500 with status "error", the message
\* "Unexpected error in cron job: " followed by the exception's text, and a
\* timestamp, without filename and without details.
C11_ResponseShape ==
    HasResponded =>
        LET r == endpoint.response
            c == r.content
        IN /\ r.status_code \in {200, 500}
           /\ {"status", "message", "timestamp"} \subseteq DOMAIN c
           /\ (r.status_code = 200) <=> UploadSucceeded
           /\ r.status_code = 200 =>
                /\ DOMAIN c = {"status", "message", "filename", "timestamp", "upload_details"}
                /\ c.status = "success"
                /\ c.filename = args.filename
                /\ c.upload_details = result
           /\ (UploadReturned /\ ~UploadSucceeded) =>
                /\ r.status_code = 500
                /\ DOMAIN c = {"status", "message", "filename", "timestamp", "error_details"}
                /\ c.status = "error"
                /\ c.filename = args.filename
                /\ c.error_details = result
           /\ ~UploadReturned =>
                /\ r.status_code = 500
                /\ DOMAIN c = {"status", "message", "timestamp"}
                /\ c.status = "error"
                /\ c.message.prefix = "Unexpected error in cron job: "
                /\ c.message.detail =
                     IF endpoint.stage = "upload_csv_to_ftp" THEN raised.msg ELSE ErrGenerate.msg

\* the environment lacks a required field, FTPClient() raised ValueError inside
\* upload_csv_to_ftp after the filename was computed, and the endpoint
\* answered 500 without the filename
C11_Witness ==
    /\ HasResponded
    /\ endpoint.stage = "upload_csv_to_ftp"
    /\ raised.kind = "ValueError"
    /\ ~constructed
    /\ args.filename = GenerateFilename(12 * 3600 + 30)
    /\ endpoint.response.status_code = 500
    /\ "filename" \notin DOMAIN endpoint.response.content

-----------------------------------------------------------------------------
(* C12 *)

\* the STOR commands received so far
Stors == {stored[k] : k \in DOMAIN stored}

\* the position of the last accepted STOR under that name (0 when none)
LastAccepted(name) ==
    LET ks == {k \in DOMAIN stored : stored[k].filename = name /\ stored[k].accepted}
    IN IF ks = {} THEN 0 ELSE CHOOSE k \in ks : \A l \in ks : l <= k

\* the two invocations were running at the same time
Overlapped(i, j) == {i, j} \in overlaps

SameMinute(a, b) == a.read_at \div 60 = b.read_at \div 60

\* C12 as the specification states it: two export invocations whose runs
\* overlap in time issue their store commands under different filenames, so
\* neither overwrites the file of the other.
C12_OverlappingExportsDiffer ==
    \A a \in Stors, b \in Stors :
        (a.by # b.by /\ Overlapped(a.by, b.by)) =>
            /\ a.filename # b.filename
            /\ (a.accepted /\ b.accepted) =>
                 {[filename |-> a.filename, by |-> a.by],
                  [filename |-> b.filename, by |-> b.by]} \subseteq files

\* C12, amended: the filename tells exports apart by the minute of their
\* clock reading only.  Two export invocations, overlapping or not, issue
\* their store commands under the same filename exactly when they read the
\* clock within the same minute; the server then keeps one file of that
\* name, holding the content of the store it accepted last, and the file of
\* the other export is overwritten.
C12_SameMinuteSameFile ==
    /\ \A a \in Stors, b \in Stors :
          (a.filename = b.filename) <=> SameMinute(a, b)
    /\ \A a \in Stors : a.filename = GenerateFilename(a.read_at)
    /\ \A f \in files, g \in files : f.filename = g.filename => f = g
    /\ \A a \in Stors :
          LET k == LastAccepted(a.filename)
          IN IF k = 0
             THEN \A f \in files : f.filename # a.filename
             ELSE [filename |-> a.filename, by |-> stored[k].by] \in files

\* two invocations overlapped, read the clock at different seconds of the
\* same minute, both stored successfully under the same name, and the server
\* holds only the content of the later one
C12_Witness ==
    /\ Len(stored) = 2
    /\ stored[1].by # stored[2].by
    /\ Overlapped(stored[1].by, stored[2].by)
    /\ stored[1].accepted /\ stored[2].accepted
    /\ stored[1].read_at # stored[2].read_at
    /\ SameMinute(stored[1], stored[2])
    /\ stored[1].filename = stored[2].filename
    /\ files = {[filename |-> stored[2].filename, by |-> stored[2].by]}

====
